---- MODULE Spec2Model ----
(***************************************************************************)
(* Model of src/config.ts of next-firebase-auth: the module-level `config` *)
(* cell, setConfig (redacted debug log, merge with the defaults,           *)
(* validation, store) and getConfig.                                       *)
(*                                                                         *)
(* JavaScript values are tagged records, so that `undefined`, strings,     *)
(* numbers, functions, arrays and objects keep the distinctions the code   *)
(* relies on (truthiness, typeof, Array.isArray, a key that is present     *)
(* with the value undefined against a key that is absent).                 *)
(***************************************************************************)
EXTENDS Integers, Sequences, FiniteSets, TLC

(***************************************************************************)
(* Bounds.                                                                 *)
(***************************************************************************)
\* number of setConfig calls followed in one process
MaxCalls == 2

(***************************************************************************)
(* JavaScript values.                                                      *)
(***************************************************************************)
Undef == [t |-> "undefined"]
Fn == [t |-> "function"]
Bool(b) == [t |-> "boolean", b |-> b]
Num(n) == [t |-> "number", n |-> n]
Str(s) == [t |-> "string", s |-> s]
Arr(a) == [t |-> "array", a |-> a]
Obj(o) == [t |-> "object", o |-> o]

\* the object literal {}
Empty == <<>>

IsObj(v) == v.t = "object"
IsArray(v) == v.t = "array"

\* ToBoolean: undefined, '', 0 and false are falsy; functions, arrays and
\* objects are truthy
Truthy(v) ==
  CASE v.t = "undefined" -> FALSE
    [] v.t = "boolean" -> v.b
    [] v.t = "number" -> v.n # 0
    [] v.t = "string" -> v.s # ""
    [] OTHER -> TRUE

\* typeof v
TypeOf(v) == IF v.t = "array" THEN "object" ELSE v.t

\* v.k : a property that is not there reads as undefined
Get(v, k) == IF IsObj(v) /\ k \in DOMAIN v.o THEN v.o[k] ELSE Undef

\* the own properties copied by `...v` : none for undefined or false
Props(v) == IF IsObj(v) THEN v.o ELSE Empty

\* { ...a, ...b } on property maps: the keys of both, b's value winning
Spread(a, b) ==
  [k \in DOMAIN a \cup DOMAIN b |-> IF k \in DOMAIN b THEN b[k] ELSE a[k]]

\* the rest pattern `{ [k]: _, ...rest } = o`
Omit(o, k) == [j \in DOMAIN o \ {k} |-> o[j]]

\* String.prototype.startsWith
StartsWith(s, p) == Len(s) >= Len(p) /\ SubSeq(s, 1, Len(p)) = p

\* Array.prototype.join on an array of strings
RECURSIVE Join(_, _)
Join(msgs, sep) ==
  IF Len(msgs) = 0 THEN ""
  ELSE IF Len(msgs) = 1 THEN msgs[1]
  ELSE msgs[1] \o sep \o Join(Tail(msgs), sep)

\* errorMessages.push(text) under a condition
PushIf(cond, text) == IF cond THEN <<text>> ELSE <<>>

(***************************************************************************)
(* Constants and messages of config.ts.                                    *)
(***************************************************************************)
TWO_WEEKS_IN_MS == 14 * 60 * 60 * 24 * 1000

MsgLoginWithHandler ==
  "The \"loginAPIEndpoint\" setting should not be set if you are using a \"tokenChangedHandler\"."
MsgLogoutWithHandler ==
  "The \"logoutAPIEndpoint\" setting should not be set if you are using a \"tokenChangedHandler\"."
MsgLoginErrWithHandler ==
  "The \"onLoginRequestError\" setting should not be set if you are using a \"tokenChangedHandler\"."
MsgLogoutErrWithHandler ==
  "The \"onLogoutRequestError\" setting should not be set if you are using a \"tokenChangedHandler\"."
MsgApiKeyRequired ==
  "The \"firebaseClientInitConfig.apiKey\" value is required."
MsgEmulatorPrefix ==
  "The firebaseAuthEmulatorHost should be set without a prefix (e.g., localhost:9099)"
MsgVerifyTokenErrorType ==
  "Invalid next-firebase-auth options: The \"onVerifyTokenError\" setting must be a function."
MsgTokenRefreshErrorType ==
  "Invalid next-firebase-auth options: The \"onTokenRefreshError\" setting must be a function."
MsgLoginRequestErrorType ==
  "Invalid next-firebase-auth options: The \"onLoginRequestError\" setting must be a function."
MsgLogoutRequestErrorType ==
  "Invalid next-firebase-auth options: The \"onLogoutRequestError\" setting must be a function."
MsgLoginRequired == "The \"loginAPIEndpoint\" setting is required."
MsgLogoutRequired == "The \"logoutAPIEndpoint\" setting is required."
MsgPrivateKeyOnClient ==
  "The \"firebaseAdminInitConfig\" private key setting should not be available on the client side."
MsgCookieKeysOnClient ==
  "The \"cookies.keys\" setting should not be available on the client side."
MsgCookieNameRequired ==
  "The \"cookies.name\" setting is required on the server side."
MsgEmulatorEnvUnset ==
  "The \"FIREBASE_AUTH_EMULATOR_HOST\" environment variable should be set if you are using the \"firebaseAuthEmulatorHost\" option"
MsgEmulatorEnvMismatch ==
  "The \"FIREBASE_AUTH_EMULATOR_HOST\" environment variable should be the same as the host set in the config"
MsgMaxAge ==
  "The \"cookies.maxAge\" setting must be less than two weeks ("
    \o ToString(TWO_WEEKS_IN_MS) \o " ms)."
MsgInvalidPrefix == "Invalid next-firebase-auth options: "
MsgNotInitialized == "next-firebase-auth must be initialized before rendering."

\* the placeholder of replacePrivateValues
Hidden == Str("hidden")

(***************************************************************************)
(* defaultConfig is imported from ./configTypes: one fixed record with an  *)
(* entry for every recognised option and a cookies sub-record.             *)
(***************************************************************************)
defaultConfig ==
  Obj([debug |-> Bool(FALSE),
       tokenChangedHandler |-> Undef,
       loginAPIEndpoint |-> Undef,
       logoutAPIEndpoint |-> Undef,
       onLoginRequestError |-> Undef,
       onLogoutRequestError |-> Undef,
       onVerifyTokenError |-> Fn,
       onTokenRefreshError |-> Fn,
       firebaseAuthEmulatorHost |-> Undef,
       firebaseAdminInitConfig |-> Undef,
       firebaseClientInitConfig |-> Undef,
       cookies |-> Obj([name |-> Undef,
                        keys |-> Undef,
                        maxAge |-> Num(7 * 60 * 60 * 24 * 1000),
                        secure |-> Bool(TRUE)])])

(***************************************************************************)
(* validateConfig, one operator per group of checks, in source order.      *)
(***************************************************************************)
\* variant: the four conflict checks chained, so that only the first one found
\* is reported
TokenChangedHandlerErrors_FirstOnly(m) ==
  IF Truthy(Get(m, "tokenChangedHandler"))
  THEN IF Truthy(Get(m, "loginAPIEndpoint")) THEN <<MsgLoginWithHandler>>
       ELSE IF Truthy(Get(m, "logoutAPIEndpoint")) THEN <<MsgLogoutWithHandler>>
       ELSE IF Truthy(Get(m, "onLoginRequestError")) THEN <<MsgLoginErrWithHandler>>
       ELSE PushIf(Truthy(Get(m, "onLogoutRequestError")), MsgLogoutErrWithHandler)
  ELSE <<>>

\* "either a tokenChangedHandler or other settings for login/logout"
TokenChangedHandlerErrors(m) ==
  IF Truthy(Get(m, "tokenChangedHandler"))
  THEN PushIf(Truthy(Get(m, "loginAPIEndpoint")), MsgLoginWithHandler)
       \o PushIf(Truthy(Get(m, "logoutAPIEndpoint")), MsgLogoutWithHandler)
       \o PushIf(Truthy(Get(m, "onLoginRequestError")), MsgLoginErrWithHandler)
       \o PushIf(Truthy(Get(m, "onLogoutRequestError")), MsgLogoutErrWithHandler)
  ELSE <<>>

\* variant: only the presence of firebaseClientInitConfig is required
ApiKeyErrors_ObjectOnly(m) ==
  PushIf(~Truthy(Get(m, "firebaseClientInitConfig")), MsgApiKeyRequired)

\* "Require the public API key"
ApiKeyErrors(m) ==
  PushIf(~(Truthy(Get(m, "firebaseClientInitConfig"))
           /\ Truthy(Get(Get(m, "firebaseClientInitConfig"), "apiKey"))),
         MsgApiKeyRequired)

\* "Make sure the host address is set correctly"
EmulatorPrefixErrors(m) ==
  PushIf(Truthy(Get(m, "firebaseAuthEmulatorHost"))
         /\ StartsWith(Get(m, "firebaseAuthEmulatorHost").s, "http"),
         MsgEmulatorPrefix)

\* funcOrUndefArr.indexOf(typeof v) < 0
NotFuncOrUndef(v) == TypeOf(v) \notin {"function", "undefined"}

\* "Ensure error handlers are functions or undefined"
ErrorHandlerTypeErrors(m) ==
  PushIf(NotFuncOrUndef(Get(m, "onVerifyTokenError")), MsgVerifyTokenErrorType)
  \o PushIf(NotFuncOrUndef(Get(m, "onTokenRefreshError")), MsgTokenRefreshErrorType)
  \o PushIf(NotFuncOrUndef(Get(m, "onLoginRequestError")), MsgLoginRequestErrorType)
  \o PushIf(NotFuncOrUndef(Get(m, "onLogoutRequestError")), MsgLogoutRequestErrorType)

\* variant: any non-empty array counts as defined
areCookieKeysDefined_AnyItem(keys) ==
  IF IsArray(keys) THEN Len(keys.a) # 0 ELSE Truthy(keys)

\* cookie keys are undefined if they are an empty string, an empty array or
\* an array of only undefined values
areCookieKeysDefined(keys) ==
  IF IsArray(keys)
  THEN Len(keys.a) # 0
       /\ Len(SelectSeq(keys.a, LAMBDA item : item # Undef)) # 0
  ELSE Truthy(keys)

\* variant: the endpoints are required even with a tokenChangedHandler
EndpointRequiredErrors_Always(m) ==
  PushIf(~Truthy(Get(m, "loginAPIEndpoint")), MsgLoginRequired)
  \o PushIf(~Truthy(Get(m, "logoutAPIEndpoint")), MsgLogoutRequired)

\* client side: the endpoints are required without a tokenChangedHandler
EndpointRequiredErrors(m) ==
  IF ~Truthy(Get(m, "tokenChangedHandler"))
  THEN PushIf(~Truthy(Get(m, "loginAPIEndpoint")), MsgLoginRequired)
       \o PushIf(~Truthy(Get(m, "logoutAPIEndpoint")), MsgLogoutRequired)
  ELSE <<>>

\* client side: no admin private key
PrivateKeyErrors(m) ==
  PushIf(Truthy(Get(m, "firebaseAdminInitConfig"))
         /\ Truthy(Get(Get(m, "firebaseAdminInitConfig"), "credential"))
         /\ Truthy(Get(Get(Get(m, "firebaseAdminInitConfig"), "credential"),
                       "privateKey")),
         MsgPrivateKeyOnClient)

\* client side: no cookie keys
CookieKeysErrors(m) ==
  PushIf(areCookieKeysDefined(Get(Get(m, "cookies"), "keys")),
         MsgCookieKeysOnClient)

\* server side: the cookie name is required
CookieNameErrors(m) ==
  PushIf(~Truthy(Get(Get(m, "cookies"), "name")), MsgCookieNameRequired)

\* variant: the environment variable is only compared, never tested for
\* being set
EmulatorEnvErrors_CompareOnly(m, env) ==
  IF Truthy(Get(m, "firebaseAuthEmulatorHost"))
  THEN PushIf(env # Get(m, "firebaseAuthEmulatorHost"), MsgEmulatorEnvMismatch)
  ELSE <<>>

\* server side: FIREBASE_AUTH_EMULATOR_HOST against the configured host
EmulatorEnvErrors(m, env) ==
  IF Truthy(Get(m, "firebaseAuthEmulatorHost"))
  THEN IF ~Truthy(env) THEN <<MsgEmulatorEnvUnset>>
       ELSE PushIf(env # Get(m, "firebaseAuthEmulatorHost"),
                   MsgEmulatorEnvMismatch)
  ELSE <<>>

\* variant: the ceiling itself is rejected
MaxAgeErrors_Inclusive(m) ==
  PushIf(~Truthy(Get(Get(m, "cookies"), "maxAge"))
         \/ Get(Get(m, "cookies"), "maxAge").n >= TWO_WEEKS_IN_MS,
         MsgMaxAge)

\* server side: "Limit the max cookie age to two weeks"
MaxAgeErrors(m) ==
  PushIf(~Truthy(Get(Get(m, "cookies"), "maxAge"))
         \/ Get(Get(m, "cookies"), "maxAge").n > TWO_WEEKS_IN_MS,
         MsgMaxAge)

validateConfig(m, clientSide, env) ==
  LET errorMessages ==
        TokenChangedHandlerErrors(m)
        \o ApiKeyErrors(m)
        \o EmulatorPrefixErrors(m)
        \o ErrorHandlerTypeErrors(m)
        \o (IF clientSide
            THEN EndpointRequiredErrors(m)
                 \o PrivateKeyErrors(m)
                 \o CookieKeysErrors(m)
            ELSE CookieNameErrors(m)
                 \o EmulatorEnvErrors(m, env)
                 \o MaxAgeErrors(m))
  IN [isValid |-> Len(errorMessages) = 0, errors |-> errorMessages]

(***************************************************************************)
(* replacePrivateValues and the merge of setConfig.                        *)
(***************************************************************************)
\* variant: the client email is left in the log
replacePrivateValues_KeepEmail(u) ==
  LET admin == Get(u, "firebaseAdminInitConfig")
      credential == Get(admin, "credential")
      redactedCredential ==
        IF Truthy(credential)
        THEN "credential" :> Obj(Spread(Props(credential),
                                        [privateKey |-> Hidden]))
        ELSE Empty
      redactedAdmin ==
        IF Truthy(admin)
        THEN "firebaseAdminInitConfig"
               :> Obj(Spread(Props(admin), redactedCredential))
        ELSE Empty
  IN Obj(Spread(Spread(Props(u),
                       "cookies" :> Obj(Spread(Props(Get(u, "cookies")),
                                               "keys" :> Arr(<<Hidden>>)))),
                redactedAdmin))

replacePrivateValues(u) ==
  LET admin == Get(u, "firebaseAdminInitConfig")
      credential == Get(admin, "credential")
      redactedCredential ==
        IF Truthy(credential)
        THEN "credential" :> Obj(Spread(Props(credential),
                                        [privateKey |-> Hidden,
                                         clientEmail |-> Hidden]))
        ELSE Empty
      redactedAdmin ==
        IF Truthy(admin)
        THEN "firebaseAdminInitConfig"
               :> Obj(Spread(Props(admin), redactedCredential))
        ELSE Empty
  IN Obj(Spread(Spread(Props(u),
                       "cookies" :> Obj(Spread(Props(Get(u, "cookies")),
                                               "keys" :> Arr(<<Hidden>>)))),
                redactedAdmin))

\* variant: the user's cookies replace the default cookies wholesale
MergeConfig_ShallowCookies(u) ==
  Obj(Spread(Spread(Props(defaultConfig), Props(u)),
             IF Truthy(Get(u, "cookies")) THEN Empty
             ELSE "cookies" :> Get(defaultConfig, "cookies")))

MergeConfig(u) ==
  LET cookieOptions == Get(u, "cookies")
      otherUserConfig == Omit(Props(u), "cookies")
  IN Obj(Spread(Spread(Props(defaultConfig), otherUserConfig),
                "cookies" :> Obj(Spread(Props(Get(defaultConfig, "cookies")),
                                        IF Truthy(cookieOptions)
                                        THEN Props(cookieOptions)
                                        ELSE Empty))))

\* the error thrown by setConfig for a failed validation
InvalidOptionsError(errs) == Str(MsgInvalidPrefix \o Join(errs, " "))

\* variant: the merged config is stored before it is validated
ConfigAfterSet_StoreFirst(old, merged, isValid) == merged

\* variant: a failed validation clears the stored config
ConfigAfterSet_ClearOnError(old, merged, isValid) ==
  IF isValid THEN merged ELSE Undef

\* the value of `config` when setConfig returns or throws
ConfigAfterSet(old, merged, isValid) == IF isValid THEN merged ELSE old

(***************************************************************************)
(* Inputs.  An option is either left out of the user's config or supplied  *)
(* with one of a few values; a user config is the union of its options.    *)
(***************************************************************************)
Opt(k, vals) == {Empty} \cup {k :> v : v \in vals}

ApiKeyOpts ==
  Opt("firebaseClientInitConfig",
      {Obj([apiKey |-> Str("")]), Obj([apiKey |-> Str("key")])})

AdminOpts ==
  Opt("firebaseAdminInitConfig",
      {Obj([credential |-> Obj([projectId |-> Str("proj")])]),
       Obj([credential |-> Obj([projectId |-> Str("proj"),
                                privateKey |-> Str("pk"),
                                clientEmail |-> Str("a@b.c")])])})

EmulatorHostOpts ==
  Opt("firebaseAuthEmulatorHost",
      {Str("localhost:9099"), Str("http://localhost:9099")})

CookieKeysOpts ==
  Opt("keys", {Str(""), Str("secret"), Arr(<<>>), Arr(<<Undef>>),
               Arr(<<Undef, Str("secret")>>)})

CookieMaxAgeOpts ==
  Opt("maxAge", {Undef, Num(0), Num(TWO_WEEKS_IN_MS),
                 Num(TWO_WEEKS_IN_MS + 1), Num(15 * 60 * 60 * 24 * 1000)})

CookieNameOpts == Opt("name", {Str("app")})

\* process.env.FIREBASE_AUTH_EMULATOR_HOST: unset, or a string
EnvHosts == {Undef, Str(""), Str("localhost:9099"), Str("localhost:9000")}

\* the configs of the validation model: every combination of the options
\* the validation rules read
WideConfigs ==
  { Obj(tok @@ login @@ logout @@ loginErr @@ logoutErr @@ api @@ host
        @@ admin @@ ("cookies" :> Obj(name @@ keys @@ maxAge))) :
      tok \in Opt("tokenChangedHandler", {Fn}),
      login \in Opt("loginAPIEndpoint", {Str("/api/login")}),
      logout \in Opt("logoutAPIEndpoint", {Str("/api/logout")}),
      loginErr \in Opt("onLoginRequestError", {Fn}),
      logoutErr \in Opt("onLogoutRequestError", {Fn}),
      api \in ApiKeyOpts,
      host \in EmulatorHostOpts,
      admin \in AdminOpts,
      name \in CookieNameOpts,
      keys \in CookieKeysOpts,
      maxAge \in CookieMaxAgeOpts }

\* the configs of the store model: an api key, one of the login modes,
\* cookie overrides and one group of further options; some are valid on the
\* client, some on the server, some on neither
UserConfigs ==
  { Obj([firebaseClientInitConfig |-> Obj([apiKey |-> Str("key")])]
        @@ auth @@ cookies @@ extra) :
      auth \in {Empty,
                "tokenChangedHandler" :> Fn,
                [loginAPIEndpoint |-> Str("/api/login"),
                 logoutAPIEndpoint |-> Str("/api/logout")]},
      cookies \in Opt("cookies",
                      {Obj([name |-> Str("app")]),
                       Obj([name |-> Str("app"),
                            keys |-> Arr(<<Str("secret")>>),
                            maxAge |-> Num(TWO_WEEKS_IN_MS),
                            secure |-> Bool(FALSE)]),
                       Obj([maxAge |-> Undef])}),
      extra \in {Empty,
                 [debug |-> Bool(TRUE),
                  onVerifyTokenError |-> Undef,
                  firebaseAuthEmulatorHost |-> Str("localhost:9099")],
                 "firebaseAdminInitConfig"
                   :> Obj([credential |-> Obj([projectId |-> Str("proj")])]),
                 "firebaseAdminInitConfig"
                   :> Obj([credential |-> Obj([projectId |-> Str("proj"),
                                               privateKey |-> Str("pk"),
                                               clientEmail |-> Str("a@b.c")])])} }

(***************************************************************************)
(* State.                                                                  *)
(***************************************************************************)
VARIABLES
  config,        \* `let config`: undefined until a setConfig stores a config
  clientSide,    \* what isClientSide() answers in this process
  envHost,       \* process.env.FIREBASE_AUTH_EMULATOR_HOST
  op,            \* the call that ran last: "none", "setConfig", "getConfig"
  userConfig,    \* argument of the last setConfig call
  logged,        \* second argument of the last logDebug call
  logCount,      \* number of logDebug calls so far
  errors,        \* `errors` of the last validateConfig result
  thrown,        \* error message thrown by the last call, or undefined
  returned,      \* value returned by the last getConfig call
  initialized,   \* history: some setConfig call has returned without throwing
  acceptedConfig \* history: argument of the last setConfig call that returned

vars == <<config, clientSide, envHost, op, userConfig, logged, logCount,
          errors, thrown, returned, initialized, acceptedConfig>>

Init ==
  /\ config = Undef
  /\ clientSide \in BOOLEAN
  /\ envHost \in EnvHosts
  /\ op = "none"
  /\ userConfig = Undef
  /\ logged = Undef
  /\ logCount = 0
  /\ errors = <<>>
  /\ thrown = Undef
  /\ returned = Undef
  /\ initialized = FALSE
  /\ acceptedConfig = Undef

setConfig(u) ==
  LET mergedConfig == MergeConfig(u)
      result == validateConfig(mergedConfig, clientSide, envHost)
  IN /\ op' = "setConfig"
     /\ userConfig' = u
     /\ logged' = replacePrivateValues(u)
     /\ logCount' = logCount + 1
     /\ errors' = result.errors
     /\ thrown' = IF result.isValid THEN Undef
                  ELSE InvalidOptionsError(result.errors)
     /\ config' = ConfigAfterSet(config, mergedConfig, result.isValid)
     /\ initialized' = (initialized \/ result.isValid)
     /\ acceptedConfig' = IF result.isValid THEN u ELSE acceptedConfig
     /\ returned' = Undef
     /\ UNCHANGED <<clientSide, envHost>>

getConfig ==
  /\ op' = "getConfig"
  /\ thrown' = IF ~Truthy(config) THEN Str(MsgNotInitialized) ELSE Undef
  /\ returned' = IF ~Truthy(config) THEN Undef ELSE config
  /\ UNCHANGED <<config, clientSide, envHost, userConfig, logged, logCount,
                 errors, initialized, acceptedConfig>>

\* a setConfig call, while the call budget lasts
SetConfigCall == logCount < MaxCalls /\ \E u \in UserConfigs : setConfig(u)

Next == SetConfigCall \/ getConfig

Spec == Init /\ [][Next]_vars

\* the validation model: the first setConfig call of a process, over
\* WideConfigs
FirstSetConfigCall == logCount = 0 /\ \E u \in WideConfigs : setConfig(u)

NextValidate == FirstSetConfigCall

SpecValidate == Init /\ [][NextValidate]_vars

(***************************************************************************)
(* Vocabulary of the properties.                                           *)
(***************************************************************************)
\* how often the last validation reported msg
Count(msg) == Cardinality({i \in 1..Len(errors) : errors[i] = msg})

\* the expected number of occurrences of a message that a rule reports when
\* cond holds
Once(cond) == IF cond THEN 1 ELSE 0

\* the merged config of the last setConfig call
LastMerged == MergeConfig(userConfig)

LastCookies == Get(LastMerged, "cookies")

\* the last setConfig call threw the invalid-configuration error and left the
\* store uninitialised
Rejected == thrown = InvalidOptionsError(errors) /\ Len(errors) > 0

(***************************************************************************)
(* C1: getConfig throws the "must be initialized" error exactly when no    *)
(* earlier setConfig call has returned normally, whatever number of        *)
(* setConfig calls failed before or after.                                 *)
(***************************************************************************)
C1_GetThrowsIffNeverSet ==
  op = "getConfig" =>
    /\ (thrown = Str(MsgNotInitialized)) <=> ~initialized
    /\ initialized => thrown = Undef

\* getConfig answers after a successful setConfig followed by a failed one
C1_Witness ==
  /\ op = "getConfig"
  /\ initialized
  /\ thrown = Undef
  /\ Len(errors) > 0
  /\ logCount = 2

(***************************************************************************)
(* C2: a setConfig call whose merged config fails validation throws the    *)
(* invalid-configuration error and leaves `config` as it was; a getConfig  *)
(* call after it returns the config stored earlier, or throws if there     *)
(* was none.                                                               *)
(***************************************************************************)
C2_FailedSetKeepsStore ==
  [][/\ (op' = "setConfig" /\ Len(errors') > 0) =>
          /\ thrown' = InvalidOptionsError(errors')
          /\ config' = config
          /\ initialized' = initialized
     /\ (op' = "getConfig" /\ Truthy(config)) => returned' = config
     /\ (op' = "getConfig" /\ ~Truthy(config)) =>
          thrown' = Str(MsgNotInitialized)]_vars

\* a failed setConfig call after a successful one, the earlier config kept
C2_Witness ==
  /\ op = "setConfig"
  /\ thrown # Undef
  /\ Truthy(config)
  /\ acceptedConfig # userConfig

(***************************************************************************)
(* C3: getConfig returns the merge of the defaults and the argument of the *)
(* last successful setConfig call: each top-level field but cookies is the *)
(* user's when the user has that key and the default otherwise, and each   *)
(* cookies field is the user's when the user's cookies have that key and   *)
(* the default cookie value otherwise.                                     *)
(***************************************************************************)
MergedFieldwise(m, u) ==
  LET userCookies == Props(Get(u, "cookies"))
      defaultCookies == Props(Get(defaultConfig, "cookies"))
      topLevel == (DOMAIN defaultConfig.o \cup DOMAIN u.o) \ {"cookies"}
  IN /\ IsObj(m)
     /\ DOMAIN m.o = topLevel \cup {"cookies"}
     /\ \A k \in topLevel :
          m.o[k] = IF k \in DOMAIN u.o THEN u.o[k] ELSE defaultConfig.o[k]
     /\ IsObj(m.o["cookies"])
     /\ DOMAIN m.o["cookies"].o = DOMAIN defaultCookies \cup DOMAIN userCookies
     /\ \A k \in DOMAIN m.o["cookies"].o :
          m.o["cookies"].o[k] = IF k \in DOMAIN userCookies
                                THEN userCookies[k]
                                ELSE defaultCookies[k]

C3_GetReturnsMerged ==
  (op = "getConfig" /\ initialized) =>
    /\ thrown = Undef
    /\ returned = config
    /\ MergedFieldwise(returned, acceptedConfig)

\* the user supplied only the cookie name: the default maxAge and secure
\* flag are still there
C3_Witness ==
  /\ op = "getConfig"
  /\ initialized
  /\ Get(acceptedConfig, "cookies") = Obj([name |-> Str("app")])
  /\ Get(Get(returned, "cookies"), "name") = Str("app")
  /\ Get(Get(returned, "cookies"), "maxAge") = Num(604800000)
  /\ Get(Get(returned, "cookies"), "secure") = Bool(TRUE)

(***************************************************************************)
(* C4: when the merged firebaseClientInitConfig is absent or has no truthy *)
(* apiKey, setConfig throws the invalid-configuration error with the       *)
(* apiKey-required message and stores nothing, on the client and on the    *)
(* server, whatever the other options are.                                 *)
(***************************************************************************)
C4_ApiKeyRequired ==
  (op = "setConfig"
   /\ ~(Truthy(Get(LastMerged, "firebaseClientInitConfig"))
        /\ Truthy(Get(Get(LastMerged, "firebaseClientInitConfig"), "apiKey"))))
  => /\ Count(MsgApiKeyRequired) = 1
     /\ Rejected
     /\ config = Undef
     /\ ~initialized

\* a server-side config whose only fault is the empty apiKey
C4_Witness ==
  /\ op = "setConfig"
  /\ ~clientSide
  /\ Get(userConfig, "firebaseClientInitConfig") = Obj([apiKey |-> Str("")])
  /\ errors = <<MsgApiKeyRequired>>
  /\ config = Undef

(***************************************************************************)
(* C5: with a tokenChangedHandler, each of loginAPIEndpoint,               *)
(* logoutAPIEndpoint, onLoginRequestError and onLogoutRequestError that is *)
(* present is reported once with its own "should not be set" message and   *)
(* setConfig throws; without a tokenChangedHandler none of the four        *)
(* messages is reported.                                                   *)
(***************************************************************************)
C5_HandlerExcludesEndpoints ==
  op = "setConfig" =>
    LET handler == Truthy(Get(LastMerged, "tokenChangedHandler"))
        has(k) == Truthy(Get(LastMerged, k))
    IN /\ Count(MsgLoginWithHandler) = Once(handler /\ has("loginAPIEndpoint"))
       /\ Count(MsgLogoutWithHandler) = Once(handler /\ has("logoutAPIEndpoint"))
       /\ Count(MsgLoginErrWithHandler)
            = Once(handler /\ has("onLoginRequestError"))
       /\ Count(MsgLogoutErrWithHandler)
            = Once(handler /\ has("onLogoutRequestError"))
       /\ (handler /\ (has("loginAPIEndpoint") \/ has("logoutAPIEndpoint")
                       \/ has("onLoginRequestError")
                       \/ has("onLogoutRequestError")))
            => Rejected /\ config = Undef

\* all four present beside a handler: four separate messages
C5_Witness ==
  /\ op = "setConfig"
  /\ Truthy(Get(userConfig, "tokenChangedHandler"))
  /\ Count(MsgLoginWithHandler) = 1
  /\ Count(MsgLogoutWithHandler) = 1
  /\ Count(MsgLoginErrWithHandler) = 1
  /\ Count(MsgLogoutErrWithHandler) = 1

(***************************************************************************)
(* C6: on the client without a tokenChangedHandler a missing               *)
(* loginAPIEndpoint and a missing logoutAPIEndpoint are each reported once *)
(* as required; with a tokenChangedHandler, or on the server, neither      *)
(* message is reported.                                                    *)
(***************************************************************************)
C6_EndpointsRequiredOnClient ==
  op = "setConfig" =>
    LET needed == clientSide /\ ~Truthy(Get(LastMerged, "tokenChangedHandler"))
    IN /\ Count(MsgLoginRequired)
            = Once(needed /\ ~Truthy(Get(LastMerged, "loginAPIEndpoint")))
       /\ Count(MsgLogoutRequired)
            = Once(needed /\ ~Truthy(Get(LastMerged, "logoutAPIEndpoint")))

\* both endpoints missing on the client: exactly the two messages
C6_Witness ==
  /\ op = "setConfig"
  /\ clientSide
  /\ errors = <<MsgLoginRequired, MsgLogoutRequired>>

(***************************************************************************)
(* C7: on the server the maxAge message is reported exactly when the       *)
(* merged cookies.maxAge is falsy or greater than 1209600000 (14 days in   *)
(* ms): 1209600000 itself passes, 15 days makes setConfig throw; on the    *)
(* client the message is never reported.                                   *)
(***************************************************************************)
C7_MaxAgeCeiling ==
  op = "setConfig" =>
    LET maxAge == Get(LastCookies, "maxAge")
    IN /\ Count(MsgMaxAge)
            = Once(~clientSide
                   /\ (~Truthy(maxAge) \/ maxAge.n > 14 * 24 * 60 * 60 * 1000))
       /\ MsgMaxAge
            = "The \"cookies.maxAge\" setting must be less than two weeks (1209600000 ms)."
       /\ (~clientSide /\ maxAge = Num(15 * 24 * 60 * 60 * 1000))
            => Rejected /\ config = Undef

\* a server-side config with maxAge at the ceiling is stored
C7_Witness ==
  /\ op = "setConfig"
  /\ ~clientSide
  /\ thrown = Undef
  /\ Get(Get(config, "cookies"), "maxAge") = Num(1209600000)

(***************************************************************************)
(* C8 as stated: on the server with an emulator host configured, an unset  *)
(* FIREBASE_AUTH_EMULATOR_HOST is reported once as "should be set", one    *)
(* set to a different string once as "should be the same", one equal to    *)
(* the host not at all; without a configured host, or on the client,       *)
(* neither message is reported.                                            *)
(***************************************************************************)
C8_Original ==
  op = "setConfig" =>
    LET host == Get(LastMerged, "firebaseAuthEmulatorHost")
        checked == ~clientSide /\ Truthy(host)
    IN /\ Count(MsgEmulatorEnvUnset) = Once(checked /\ envHost = Undef)
       /\ Count(MsgEmulatorEnvMismatch)
            = Once(checked /\ envHost # Undef /\ envHost # host)

(***************************************************************************)
(* C8 amended: on the server with an emulator host configured,             *)
(* FIREBASE_AUTH_EMULATOR_HOST unset or set to the empty string is         *)
(* reported once as "should be set", a non-empty value different from the  *)
(* host once as "should be the same", a value equal to the host not at     *)
(* all; without a configured host, or on the client, neither message is    *)
(* reported.                                                               *)
(***************************************************************************)
C8_EmulatorEnv ==
  op = "setConfig" =>
    LET host == Get(LastMerged, "firebaseAuthEmulatorHost")
        checked == ~clientSide /\ Truthy(host)
    IN /\ Count(MsgEmulatorEnvUnset)
            = Once(checked /\ envHost \in {Undef, Str("")})
       /\ Count(MsgEmulatorEnvMismatch)
            = Once(checked /\ envHost \notin {Undef, Str("")} /\ envHost # host)

\* the variable is set, to the empty string, and reported as not set
C8_Witness ==
  /\ op = "setConfig"
  /\ ~clientSide
  /\ envHost = Str("")
  /\ Get(userConfig, "firebaseAuthEmulatorHost") = Str("localhost:9099")
  /\ Count(MsgEmulatorEnvUnset) = 1
  /\ Count(MsgEmulatorEnvMismatch) = 0

(***************************************************************************)
(* C9: every setConfig call, valid or not, makes exactly one logDebug call *)
(* and getConfig makes none; the logged object has cookies.keys =          *)
(* ['hidden'] and, when the user gave an admin credential, privateKey and  *)
(* clientEmail = 'hidden'; every other field is logged as supplied; and    *)
(* what is stored is merged from the user's own values, not the redacted   *)
(* ones.                                                                   *)
(***************************************************************************)
Redacted(l, u) ==
  LET userCookies == Props(Get(u, "cookies"))
      admin == Get(u, "firebaseAdminInitConfig")
      credential == Get(admin, "credential")
      loggedAdmin == Get(l, "firebaseAdminInitConfig")
      loggedCredential == Get(loggedAdmin, "credential")
  IN /\ IsObj(l)
     /\ DOMAIN l.o = DOMAIN u.o \cup {"cookies"}
     /\ \A k \in DOMAIN u.o \ {"cookies", "firebaseAdminInitConfig"} :
          l.o[k] = u.o[k]
     /\ Get(Get(l, "cookies"), "keys") = Arr(<<Hidden>>)
     /\ DOMAIN Props(Get(l, "cookies")) = DOMAIN userCookies \cup {"keys"}
     /\ \A k \in DOMAIN userCookies \ {"keys"} :
          Get(Get(l, "cookies"), k) = userCookies[k]
     /\ "firebaseAdminInitConfig" \in DOMAIN u.o =>
          /\ DOMAIN Props(loggedAdmin) = DOMAIN Props(admin)
          /\ \A k \in DOMAIN Props(admin) \ {"credential"} :
               Get(loggedAdmin, k) = Get(admin, k)
          /\ IF Truthy(credential)
             THEN /\ Get(loggedCredential, "privateKey") = Hidden
                  /\ Get(loggedCredential, "clientEmail") = Hidden
                  /\ DOMAIN Props(loggedCredential)
                       = DOMAIN Props(credential)
                           \cup {"privateKey", "clientEmail"}
                  /\ \A k \in DOMAIN Props(credential)
                               \ {"privateKey", "clientEmail"} :
                       Get(loggedCredential, k) = Get(credential, k)
             ELSE loggedCredential = credential

C9_LogIsRedacted ==
  [][/\ op' = "setConfig" =>
          /\ logCount' = logCount + 1
          /\ Redacted(logged', userConfig')
          /\ thrown' = Undef => MergedFieldwise(config', userConfig')
     /\ op' = "getConfig" => logCount' = logCount /\ logged' = logged]_vars

\* a second call, rejected, whose admin credential and cookie keys were
\* logged as placeholders
C9_Witness ==
  /\ op = "setConfig"
  /\ logCount = 2
  /\ thrown # Undef
  /\ Get(Get(Get(userConfig, "firebaseAdminInitConfig"), "credential"),
         "privateKey") = Str("pk")
  /\ Get(Get(userConfig, "cookies"), "keys") = Arr(<<Str("secret")>>)
  /\ Get(Get(Get(logged, "firebaseAdminInitConfig"), "credential"),
         "clientEmail") = Hidden
  /\ Get(Get(logged, "cookies"), "keys") = Arr(<<Hidden>>)

(***************************************************************************)
(* C10: a config stored on the client has no admin private key and no      *)
(* defined cookie keys, keys being defined when they are a non-empty list  *)
(* with an element other than undefined or a truthy non-list value; the    *)
(* client-side messages are reported exactly for those configs, so an      *)
(* empty string, an empty list and a list of undefined are accepted, and   *)
(* on the server neither message is reported.                              *)
(***************************************************************************)
KeysDefined(keys) ==
  IF keys.t = "array"
  THEN \E i \in 1..Len(keys.a) : keys.a[i] # Undef
  ELSE Truthy(keys)

PrivateKeyOf(c) ==
  Get(Get(Get(c, "firebaseAdminInitConfig"), "credential"), "privateKey")

C10_NoSecretsOnClient ==
  /\ (clientSide /\ Truthy(config)) =>
       /\ ~Truthy(PrivateKeyOf(config))
       /\ ~KeysDefined(Get(Get(config, "cookies"), "keys"))
  /\ op = "setConfig" =>
       /\ Count(MsgCookieKeysOnClient)
            = Once(clientSide /\ KeysDefined(Get(LastCookies, "keys")))
       /\ Count(MsgPrivateKeyOnClient)
            = Once(clientSide /\ Truthy(PrivateKeyOf(LastMerged)))

\* a list of only undefined keys is stored on the client
C10_Witness ==
  /\ op = "setConfig"
  /\ clientSide
  /\ thrown = Undef
  /\ Get(Get(config, "cookies"), "keys") = Arr(<<Undef>>)

====
